---- MODULE Spec2Model ----
(***************************************************************************)
(* Model of plates_game: the CSV-to-database conversion                    *)
(* (convert_csv_records_to_database.py) and the rarity queries             *)
(* (rarity_checker.py).                                                    *)
(*                                                                         *)
(* Strings are sequences of one-character strings, so that slicing,        *)
(* lstrip and int() are computed character by character.  None is the      *)
(* empty sequence <<>> where a value may be absent, a present value v is   *)
(* the one-element sequence <<v>>.                                         *)
(***************************************************************************)
EXTENDS Integers, Sequences, FiniteSets

VARIABLES
    file,           \* the data lines of the CSV file (after the header line)
    line_num,       \* csv reader's line_num: physical lines read so far
    db,             \* rows of `records` in the in-memory database
    pc,             \* position of convert_csv_file_to_db
    err,            \* exception raised by the run ("none" when none)
    record_count,   \* value returned by convert_csv_file_to_db (<<>> : none yet)
    output_db,      \* rows of `records` in the database file on disk
    persist_count,  \* number of write_output_db_file calls
    result          \* outcome of the last rarity_checker call

vars == <<file, line_num, db, pc, err, record_count, output_db, persist_count, result>>

---------------------------------------------------------------------------
(* Characters and Python string primitives                                 *)

DigitChars == {"0", "1", "2", "3", "4", "5", "6", "7", "8", "9"}

DigitVal(c) ==
    CASE c = "0" -> 0 [] c = "1" -> 1 [] c = "2" -> 2 [] c = "3" -> 3
      [] c = "4" -> 4 [] c = "5" -> 5 [] c = "6" -> 6 [] c = "7" -> 7
      [] c = "8" -> 8 [] c = "9" -> 9

\* str.lstrip("0")
RECURSIVE lstrip0(_)
lstrip0(s) ==
    IF s = <<>> THEN <<>>
    ELSE IF Head(s) = "0" THEN lstrip0(Tail(s)) ELSE s

\* s[a:b] with Python's treatment of negative and out-of-range indices;
\* b = <<>> stands for an omitted upper index
PySlice(s, a, b) ==
    LET n  == Len(s)
        lo0 == IF a < 0 THEN a + n ELSE a
        lo  == IF lo0 < 0 THEN 0 ELSE IF lo0 > n THEN n ELSE lo0
        hi0 == IF b = <<>> THEN n ELSE IF b[1] < 0 THEN b[1] + n ELSE b[1]
        hi  == IF hi0 < 0 THEN 0 ELSE IF hi0 > n THEN n ELSE hi0
    IN  SubSeq(s, lo + 1, hi)

RECURSIVE ParseDigits(_, _)
ParseDigits(s, acc) ==
    IF s = <<>> THEN acc
    ELSE ParseDigits(Tail(s), acc * 10 + DigitVal(Head(s)))

\* int(s) for a string: an optional sign followed by one or more decimal
\* digits; anything else raises ValueError
PyInt(s) ==
    LET signed == s # <<>> /\ Head(s) \in {"-", "+"}
        body   == IF signed THEN Tail(s) ELSE s
    IN  IF body = <<>> \/ \E i \in 1..Len(body) : body[i] \notin DigitChars
        THEN [ok |-> FALSE, val |-> 0]
        ELSE [ok |-> TRUE,
              val |-> IF signed /\ Head(s) = "-"
                      THEN 0 - ParseDigits(body, 0)
                      ELSE ParseDigits(body, 0)]

---------------------------------------------------------------------------
(* convert_csv_records_to_database.py                                      *)

\* create_memory_db: an empty `records` table
create_memory_db == <<>>

\* split_plate_into_parts with the 8-digit branch slicing like the 7-digit one
split_plate_into_parts_same_widths(plate_number) ==
    LET a == PyInt(PySlice(plate_number, 0, <<2>>))
        b == PyInt(PySlice(plate_number, 2, <<-2>>))
        c == PyInt(PySlice(plate_number, -2, <<>>))
    IN  IF Len(plate_number) \in {7, 8}
        THEN IF a.ok /\ b.ok /\ c.ok
             THEN [kind |-> "tuple", first |-> a.val, second |-> b.val, third |-> c.val]
             ELSE [kind |-> "ValueError", first |-> 0, second |-> 0, third |-> 0]
        ELSE [kind |-> "None", first |-> 0, second |-> 0, third |-> 0]

\* split_plate_into_parts: a 3-tuple of ints, None (no branch taken), or the
\* ValueError of an int() call
split_plate_into_parts(plate_number) ==
    IF Len(plate_number) = 7 THEN
        LET a == PyInt(PySlice(plate_number, 0, <<2>>))
            b == PyInt(PySlice(plate_number, 2, <<-2>>))
            c == PyInt(PySlice(plate_number, -2, <<>>))
        IN  IF a.ok /\ b.ok /\ c.ok
            THEN [kind |-> "tuple", first |-> a.val, second |-> b.val, third |-> c.val]
            ELSE [kind |-> "ValueError", first |-> 0, second |-> 0, third |-> 0]
    ELSE IF Len(plate_number) = 8 THEN
        LET a == PyInt(PySlice(plate_number, 0, <<3>>))
            b == PyInt(PySlice(plate_number, 3, <<-3>>))
            c == PyInt(PySlice(plate_number, -3, <<>>))
        IN  IF a.ok /\ b.ok /\ c.ok
            THEN [kind |-> "tuple", first |-> a.val, second |-> b.val, third |-> c.val]
            ELSE [kind |-> "ValueError", first |-> 0, second |-> 0, third |-> 0]
    ELSE [kind |-> "None", first |-> 0, second |-> 0, third |-> 0]

Row(production_year, plate_number, first, second, third) ==
    [production_year |-> production_year, plate_number |-> plate_number,
     first |-> first, second |-> second, third |-> third]

\* insert_csv_line_into_db with the INSERT before the production year is parsed
insert_csv_line_into_db_early_insert(record, d) ==
    LET plate_number == lstrip0(record.mispar_rechev)
        parts        == split_plate_into_parts(plate_number)
        year         == PyInt(record.shnat_yitzur)
    IN  IF parts.kind = "ValueError" THEN [exc |-> "ValueError", db |-> d]
        ELSE IF parts.kind = "None" THEN [exc |-> "TypeError", db |-> d]
        ELSE [exc |-> IF year.ok THEN "none" ELSE "ValueError",
              db  |-> Append(d, Row(year.val, plate_number,
                                    parts.first, parts.second, parts.third))]

\* insert_csv_line_into_db: the exception raised ("none" when it returns) and
\* the table after the call.  Unpacking None raises TypeError.
insert_csv_line_into_db(record, d) ==
    LET plate_number == lstrip0(record.mispar_rechev)
        parts        == split_plate_into_parts(plate_number)
        year         == PyInt(record.shnat_yitzur)
    IN  IF parts.kind = "ValueError" THEN [exc |-> "ValueError", db |-> d]
        ELSE IF parts.kind = "None" THEN [exc |-> "TypeError", db |-> d]
        ELSE IF ~year.ok THEN [exc |-> "ValueError", db |-> d]
        ELSE [exc |-> "none",
              db  |-> Append(d, Row(year.val, plate_number,
                                    parts.first, parts.second, parts.third))]

NoResult == [op |-> "none", number |-> 0, exc |-> "none", opened |-> FALSE,
             appearance_count |-> <<>>, latest_production_year |-> <<>>,
             level |-> <<>>, divisor |-> <<>>, odds |-> <<>>]

\* Number of data lines the reader has yielded: the header is line 1
Yielded == IF line_num = 0 THEN 0 ELSE line_num - 1

\* One iteration of `for record in records_reader` whose insert returns.
\* The first __next__ of the DictReader also reads the header line.
InsertRecord ==
    /\ pc = "loop"
    /\ Yielded < Len(file)
    /\ LET r == insert_csv_line_into_db(file[Yielded + 1], db)
       IN  /\ r.exc = "none"
           /\ db' = r.db
    /\ line_num' = (IF line_num = 0 THEN 1 ELSE line_num) + 1
    /\ UNCHANGED <<file, pc, err, record_count, output_db, persist_count, result>>

\* One iteration whose insert raises: the exception leaves the loop
InsertRaises ==
    /\ pc = "loop"
    /\ Yielded < Len(file)
    /\ LET r == insert_csv_line_into_db(file[Yielded + 1], db)
       IN  /\ r.exc # "none"
           /\ db' = r.db
           /\ err' = r.exc
    /\ line_num' = (IF line_num = 0 THEN 1 ELSE line_num) + 1
    /\ pc' = "raised"
    /\ UNCHANGED <<file, record_count, output_db, persist_count, result>>

\* Unwind with the pending rows written out while the exception unwinds
UnwindPersisting ==
    /\ pc = "raised"
    /\ output_db' = db
    /\ persist_count' = persist_count + 1
    /\ db' = <<>>
    /\ pc' = "failed"
    /\ UNCHANGED <<file, line_num, err, record_count, result>>

\* The exception leaves both `with` blocks: the connection's __exit__ rolls
\* the open transaction back, and convert_csv_file_to_db raises
Unwind ==
    /\ pc = "raised"
    /\ db' = <<>>
    /\ pc' = "failed"
    /\ UNCHANGED <<file, line_num, err, record_count, output_db, persist_count, result>>

\* The reader is exhausted: record_count = line_num, commit,
\* write_output_db_file, return record_count
Finish ==
    /\ pc = "loop"
    /\ Yielded = Len(file)
    /\ line_num' = IF line_num = 0 THEN 1 ELSE line_num
    /\ record_count' = <<line_num'>>
    /\ output_db' = db
    /\ persist_count' = persist_count + 1
    /\ pc' = "done"
    /\ UNCHANGED <<file, db, err, result>>

NextIngest == InsertRecord \/ InsertRaises \/ Unwind \/ Finish

\* The state in which convert_csv_file_to_db starts on the data lines f
StartOn(f) ==
    /\ file = f
    /\ line_num = 0
    /\ db = create_memory_db
    /\ pc = "loop"
    /\ err = "none"
    /\ record_count = <<>>
    /\ output_db = <<>>
    /\ persist_count = 0
    /\ result = NoResult

---------------------------------------------------------------------------
(* IEEE-754 binary64 arithmetic of line 48 of rarity_checker.py:           *)
(* index / len(list) * 100, then math.floor.  A positive double is a       *)
(* 53-bit mantissa (most significant bit first, leading bit 1) and the     *)
(* exponent of its last bit: value = mant * 2^exp.  Every intermediate     *)
(* number stays small, so no wide integer is needed.                       *)

MantissaBits == 53

FloatZero == [zero |-> TRUE, mant |-> <<>>, exp |-> 0]

\* bits + 1 for a bit string that is not all ones: the last 0 becomes 1 and
\* the ones after it become 0
BitsInc(bits) ==
    LET z == CHOOSE i \in 1..Len(bits) :
                 bits[i] = 0 /\ \A j \in (i + 1)..Len(bits) : bits[j] = 1
    IN  [i \in 1..Len(bits) |-> IF i < z THEN bits[i] ELSE IF i = z THEN 1 ELSE 0]

\* Round-half-to-even of the bit string p (leading bit 1) times 2^e, with
\* `sticky` telling whether non-zero bits follow p
RoundToDouble(p, sticky, e) ==
    LET n == Len(p) IN
    IF n <= MantissaBits
    THEN [zero |-> FALSE,
          mant |-> p \o [i \in 1..(MantissaBits - n) |-> 0],
          exp  |-> e - (MantissaBits - n)]
    ELSE
        LET kept  == SubSeq(p, 1, MantissaBits)
            guard == p[MantissaBits + 1]
            rest  == sticky \/ \E i \in (MantissaBits + 2)..n : p[i] = 1
            up    == guard = 1 /\ (rest \/ kept[MantissaBits] = 1)
            e1    == e + (n - MantissaBits)
        IN  IF ~up THEN [zero |-> FALSE, mant |-> kept, exp |-> e1]
            ELSE IF \A i \in 1..MantissaBits : kept[i] = 1
                 THEN [zero |-> FALSE,
                       mant |-> <<1>> \o [i \in 1..(MantissaBits - 1) |-> 0],
                       exp  |-> e1 + 1]
                 ELSE [zero |-> FALSE, mant |-> BitsInc(kept), exp |-> e1]

\* Bits are produced and multiplied ChunkBits at a time
ChunkBits == 8

ChunkBase == 256

\* The ChunkBits-bit binary form of n, 0 <= n < ChunkBase
ChunkToBits(n) ==
    <<(n \div 128) % 2, (n \div 64) % 2, (n \div 32) % 2, (n \div 16) % 2,
      (n \div 8) % 2, (n \div 4) % 2, (n \div 2) % 2, n % 2>>

RECURSIVE BitsToInt(_, _)
BitsToInt(bits, acc) ==
    IF bits = <<>> THEN acc ELSE BitsToInt(Tail(bits), 2 * acc + Head(bits))

RECURSIVE StripLeadingZeroBits(_)
StripLeadingZeroBits(bits) ==
    IF bits # <<>> /\ Head(bits) = 0 THEN StripLeadingZeroBits(Tail(bits)) ELSE bits

RECURSIVE DivBits(_, _, _, _)
\* Binary long division of rem / b (rem < b), ChunkBits bits a step: the
\* bits after the leading zeros, until more than MantissaBits of them are
\* known.  pos is the weight 2^-pos of the last bit produced.
DivBits(rem, b, pos, acc) ==
    IF Len(acc) > MantissaBits
    THEN [bits |-> acc, rem |-> rem, pos |-> pos]
    ELSE LET t    == rem * ChunkBase
             bits == ChunkToBits(t \div b)
         IN  DivBits(t % b, b, pos + ChunkBits,
                     IF acc = <<>> THEN StripLeadingZeroBits(bits) ELSE acc \o bits)

\* a / b for ints 0 <= a < b: the correctly rounded quotient
IntTrueDiv(a, b) ==
    IF a = 0 THEN FloatZero
    ELSE LET q == DivBits(a, b, 0, <<>>)
         IN  RoundToDouble(q.bits, q.rem # 0, 0 - q.pos)

RECURSIVE BitsMulSmall(_, _, _, _)
\* bits * k, 0 < k < ChunkBase, from the least significant chunk; Len(bits) is
\* a multiple of ChunkBits
BitsMulSmall(bits, k, carry, acc) ==
    IF bits = <<>> THEN ChunkToBits(carry) \o acc
    ELSE LET n    == Len(bits)
             t    == BitsToInt(SubSeq(bits, n - ChunkBits + 1, n), 0) * k + carry
         IN  BitsMulSmall(SubSeq(bits, 1, n - ChunkBits), k, t \div ChunkBase,
                          ChunkToBits(t % ChunkBase) \o acc)

\* x * k for a double x and a small positive int k (exactly representable)
FloatMulInt(x, k) ==
    IF x.zero THEN FloatZero
    ELSE LET padded == <<0, 0, 0>> \o x.mant
             p == StripLeadingZeroBits(BitsMulSmall(padded, k, 0, <<>>))
         IN  RoundToDouble(p, FALSE, x.exp)

\* math.floor(x) for a double 0 <= x < 2^30
MathFloor(x) ==
    IF x.zero THEN 0
    ELSE IF x.exp >= 0
         THEN BitsToInt(x.mant \o [i \in 1..x.exp |-> 0], 0)
         ELSE IF MantissaBits + x.exp <= 0 THEN 0
              ELSE BitsToInt(SubSeq(x.mant, 1, MantissaBits + x.exp), 0)


---------------------------------------------------------------------------
(* rarity_checker.py                                                       *)

\* WHERE `first`=:1 OR `second`=:1 OR `third`=:1
WhereAnyPart(row, number) ==
    row.first = number \/ row.second = number \/ row.third = number

\* get_total_record_count: SELECT COUNT(`plate_number`) FROM `records`
get_total_record_count(d) ==
    Cardinality({k \in 1..Len(d) : d[k].plate_number # <<>>})

RECURSIVE SelectMaxCountPerPart(_, _, _, _, _)
\* The scan with a row adding one to the count for every part that matches
SelectMaxCountPerPart(d, number, k, mx, cnt) ==
    IF k > Len(d) THEN [max |-> mx, count |-> cnt]
    ELSE IF WhereAnyPart(d[k], number)
         THEN SelectMaxCountPerPart(d, number, k + 1,
                  IF mx = <<>> \/ d[k].production_year > mx[1]
                  THEN <<d[k].production_year>> ELSE mx,
                  cnt + (IF d[k].first = number THEN 1 ELSE 0)
                      + (IF d[k].second = number THEN 1 ELSE 0)
                      + (IF d[k].third = number THEN 1 ELSE 0))
         ELSE SelectMaxCountPerPart(d, number, k + 1, mx, cnt)

RECURSIVE SelectMaxCount(_, _, _, _, _)
\* The aggregate query's scan of the table from row k on: MAX over no row is
\* NULL, COUNT(*) counts each row the WHERE clause keeps
SelectMaxCount(d, number, k, mx, cnt) ==
    IF k > Len(d) THEN [max |-> mx, count |-> cnt]
    ELSE IF WhereAnyPart(d[k], number)
         THEN SelectMaxCount(d, number, k + 1,
                  IF mx = <<>> \/ d[k].production_year > mx[1]
                  THEN <<d[k].production_year>> ELSE mx,
                  cnt + 1)
         ELSE SelectMaxCount(d, number, k + 1, mx, cnt)

get_latest_production_year_and_appearance_count_per_part(d, number) ==
    SelectMaxCountPerPart(d, number, 1, <<>>, 0)

\* get_latest_production_year_and_appearance_count: the row
\* (MAX(production_year), COUNT( * )); no check of `number`
get_latest_production_year_and_appearance_count(d, number) ==
    SelectMaxCount(d, number, 1, <<>>, 0)

\* SELECT COUNT( * ) ... WHERE first=:1 OR second=:1 OR third=:1
SelectCount(d, number) ==
    Cardinality({k \in 1..Len(d) : WhereAnyPart(d[k], number)})

\* range(1000)
NumberRange == 1000

RECURSIVE AscendingBlocks(_, _)
\* list.sort() without reverse: ascending
AscendingBlocks(numbers, vals) ==
    IF vals = {} THEN <<>>
    ELSE LET c == CHOOSE x \in vals : \A y \in vals : x <= y
             n == Cardinality({i \in 1..Len(numbers) : numbers[i] = c})
         IN  [i \in 1..n |-> c] \o AscendingBlocks(numbers, vals \ {c})

RECURSIVE DescendingBlocks(_, _)
\* The elements of `numbers` with a value in vals, in descending order: the
\* largest value as often as it occurs, then the rest
DescendingBlocks(numbers, vals) ==
    IF vals = {} THEN <<>>
    ELSE LET c == CHOOSE x \in vals : \A y \in vals : y <= x
             n == Cardinality({i \in 1..Len(numbers) : numbers[i] = c})
         IN  [i \in 1..n |-> c] \o DescendingBlocks(numbers, vals \ {c})

\* list.sort(reverse=True)
ListSortReverse(numbers) ==
    DescendingBlocks(numbers, {numbers[i] : i \in 1..Len(numbers)})

\* list.index(x): the 0-based position of the first occurrence (<<>>: ValueError)
ListIndex(list, x) ==
    IF \A k \in 1..Len(list) : list[k] # x THEN <<>>
    ELSE <<(CHOOSE k \in 1..Len(list) :
                list[k] = x /\ \A j \in 1..(k - 1) : list[j] # x) - 1>>

\* _get_sorted_counts without reverse=True
_get_sorted_counts_ascending(d) ==
    LET numbers == [i \in 1..NumberRange |-> SelectCount(d, i - 1)] \o <<>>
    IN  AscendingBlocks(numbers, {numbers[i] : i \in 1..Len(numbers)})

\* _get_sorted_counts: the count of every i in range(1000), appended to a
\* list, and the list sorted in descending order
_get_sorted_counts(d) ==
    LET numbers == [i \in 1..NumberRange |-> SelectCount(d, i - 1)] \o <<>>
    IN  ListSortReverse(numbers)

\* check_number_rarity with the upper limit of the range check at 1999
check_number_rarity_late_check(d, number) ==
    IF number < 0 \/ number > 1999
    THEN [NoResult EXCEPT !.op = "check_number_rarity", !.number = number,
                          !.exc = "ValueError"]
    ELSE LET row == get_latest_production_year_and_appearance_count(d, number)
         IN  [NoResult EXCEPT !.op = "check_number_rarity", !.number = number,
                              !.opened = TRUE,
                              !.appearance_count = <<row.count>>,
                              !.latest_production_year = row.max]

\* check_number_rarity on the database file d
check_number_rarity(d, number) ==
    IF number < 0 \/ number > 999
    THEN [NoResult EXCEPT !.op = "check_number_rarity", !.number = number,
                          !.exc = "ValueError"]
    ELSE LET row == get_latest_production_year_and_appearance_count(d, number)
         IN  [NoResult EXCEPT !.op = "check_number_rarity", !.number = number,
                              !.opened = TRUE,
                              !.appearance_count = <<row.count>>,
                              !.latest_production_year = row.max]

\* estimate_difficulty_level on the database file d
estimate_difficulty_level(d, number) ==
    IF number < 0 \/ number > 999
    THEN [NoResult EXCEPT !.op = "estimate_difficulty_level", !.number = number,
                          !.exc = "ValueError"]
    ELSE LET sorted_appearance_count == _get_sorted_counts(d)
             appearance_count ==
                 get_latest_production_year_and_appearance_count(d, number).count
             index == ListIndex(sorted_appearance_count, appearance_count)
         IN  IF index = <<>>
             THEN [NoResult EXCEPT !.op = "estimate_difficulty_level",
                                   !.number = number, !.opened = TRUE,
                                   !.exc = "ValueError"]
             ELSE [NoResult EXCEPT !.op = "estimate_difficulty_level",
                                   !.number = number, !.opened = TRUE,
                                   !.level = <<MathFloor(FloatMulInt(
                                       IntTrueDiv(index[1], Len(sorted_appearance_count)),
                                       100)) + 1>>]

\* rarity_checker.main: the total, the rarity row, then total / appearances
main(d, number) ==
    LET total_count == get_total_record_count(d)
        r == check_number_rarity(d, number)
    IN  IF r.exc # "none"
        THEN [r EXCEPT !.op = "main", !.opened = TRUE]
        ELSE IF r.appearance_count[1] = 0
             THEN [r EXCEPT !.op = "main", !.exc = "ZeroDivisionError",
                            !.divisor = r.appearance_count]
             ELSE [r EXCEPT !.op = "main", !.divisor = r.appearance_count,
                            !.odds = <<total_count \div r.appearance_count[1]>>]

\* The numbers the calls are made with: every number from -1 to 1000 for
\* check_number_rarity, a few of them for the other calls
AllNumbers == (0 - 1)..NumberRange

QueryNumbers == {-1, 0, 1, 7, 8, 9, 10, 12, 77, 345, 678, 999, 1000}

CheckNumberRarity ==
    /\ pc = "done"
    /\ result = NoResult
    /\ \E number \in AllNumbers : result' = check_number_rarity(output_db, number)
    /\ UNCHANGED <<file, line_num, db, pc, err, record_count, output_db, persist_count>>

EstimateDifficultyLevel ==
    /\ pc = "done"
    /\ result = NoResult
    /\ \E number \in QueryNumbers : result' = estimate_difficulty_level(output_db, number)
    /\ UNCHANGED <<file, line_num, db, pc, err, record_count, output_db, persist_count>>

\* A direct call of the helper on an open connection to the database file
GetLatestProductionYearAndAppearanceCount ==
    /\ pc = "done"
    /\ result = NoResult
    /\ \E number \in QueryNumbers :
          LET row == get_latest_production_year_and_appearance_count(output_db, number)
          IN  result' = [NoResult EXCEPT
                  !.op = "get_latest_production_year_and_appearance_count",
                  !.number = number, !.opened = TRUE,
                  !.appearance_count = <<row.count>>,
                  !.latest_production_year = row.max]
    /\ UNCHANGED <<file, line_num, db, pc, err, record_count, output_db, persist_count>>

Main ==
    /\ pc = "done"
    /\ result = NoResult
    /\ \E number \in QueryNumbers : result' = main(output_db, number)
    /\ UNCHANGED <<file, line_num, db, pc, err, record_count, output_db, persist_count>>

NextQuery ==
    CheckNumberRarity \/ EstimateDifficultyLevel
        \/ GetLatestProductionYearAndAppearanceCount \/ Main


---------------------------------------------------------------------------
(* Inputs                                                                  *)

\* A parsed CSV record: the two fields insert_csv_line_into_db reads
Rec(plate, year) == [mispar_rechev |-> plate, shnat_yitzur |-> year]

\* The files of at most n data lines drawn from the records C
Files(C, n) == UNION {[1..k -> C] : k \in 0..n}

\* Data lines of the conversion runs: 7-digit, zero-padded 7-digit and 8-digit
\* plates, an all-zero plate, plates of 5 and 9 digits, years that are no
\* number, and plates with a character that is no digit
LineCandidates ==
    {Rec(<<"1", "2", "3", "4", "5", "6", "7">>, <<"2", "0", "1", "5">>),
     Rec(<<"0", "1", "2", "3", "4", "5", "6", "7">>, <<"2", "0", "1", "8">>),
     Rec(<<"1", "2", "3", "4", "5", "6", "7", "8">>, <<"2", "0", "1", "0">>),
     Rec(<<"0", "0", "0", "0", "0", "0", "0">>, <<"2", "0", "2", "0">>),
     Rec(<<"1", "2", "3", "4", "5">>, <<"2", "0", "2", "0">>),
     Rec(<<"1", "2", "3", "4", "5", "6", "7", "8", "9">>, <<"2", "0", "2", "0">>),
     Rec(<<"7", "7", "0", "0", "7", "7", "7">>, <<"2", "0", "x">>),
     Rec(<<"1", "2", "3", "4", "5", "6", "7", "8">>, <<>>),
     Rec(<<"-", "1", "2", "3", "4", "5", "6">>, <<"2", "0", "2", "0">>),
     Rec(<<"1", "x", "3", "4", "5", "6", "7">>, <<"2", "0", "2", "0">>)}

MaxLines == 3

InitIngest == \E f \in Files(LineCandidates, MaxLines) : StartOn(f)

SpecIngest == InitIngest /\ [][NextIngest]_vars

\* Digit strings of every length up to MaxPlateLen, leading zeros included
PlateDigits == {"0", "1", "9"}

MaxPlateLen == 9

YearStrings == {<<"2", "0", "2", "0">>, <<"2", "0", "x">>, <<>>}

PriorRecord == Rec(<<"1", "2", "3", "4", "5", "6", "7", "8">>, <<"2", "0", "1", "0">>)

InitNormalize ==
    \E s \in Files(PlateDigits, MaxPlateLen), y \in YearStrings :
        StartOn(<<PriorRecord, Rec(s, y)>>)

SpecNormalize == InitNormalize /\ [][NextIngest]_vars

\* Records of the files whose stores are queried: 12-345-67, 123-45-678,
\* 77-007-77, 10-007-08, the all-zero plate and a plate with a sign
StoreCandidates ==
    {Rec(<<"1", "2", "3", "4", "5", "6", "7">>, <<"2", "0", "1", "5">>),
     Rec(<<"1", "2", "3", "4", "5", "6", "7", "8">>, <<"2", "0", "1", "0">>),
     Rec(<<"7", "7", "0", "0", "7", "7", "7">>, <<"2", "0", "1", "2">>),
     Rec(<<"1", "0", "0", "0", "7", "0", "8">>, <<"2", "0", "1", "6">>),
     Rec(<<"0", "0", "0", "0", "0", "0", "0">>, <<"2", "0", "2", "0">>),
     Rec(<<"-", "1", "2", "3", "4", "5", "6">>, <<"2", "0", "2", "0">>)}

MaxStoreLines == 2

\* A store in which 7 and 8 appear on five plates each and 9 on one
ExampleFile ==
    <<Rec(<<"1", "0", "0", "0", "7", "0", "8">>, <<"2", "0", "1", "6">>),
      Rec(<<"1", "0", "0", "0", "7", "0", "8">>, <<"2", "0", "1", "6">>),
      Rec(<<"1", "0", "0", "0", "7", "0", "8">>, <<"2", "0", "1", "9">>),
      Rec(<<"1", "0", "0", "0", "8", "0", "7">>, <<"2", "0", "0", "1">>),
      Rec(<<"1", "0", "0", "0", "8", "0", "7">>, <<"2", "0", "0", "1">>),
      Rec(<<"1", "0", "0", "0", "9", "1", "0">>, <<"2", "0", "1", "1">>)>>

DigitChar(n) ==
    CASE n = 0 -> "0" [] n = 1 -> "1" [] n = 2 -> "2" [] n = 3 -> "3"
      [] n = 4 -> "4" [] n = 5 -> "5" [] n = 6 -> "6" [] n = 7 -> "7"
      [] n = 8 -> "8" [] n = 9 -> "9"

Pad2(n) == <<DigitChar((n \div 10) % 10), DigitChar(n % 10)>>

Pad3(n) == <<DigitChar((n \div 100) % 10)>> \o Pad2(n)

\* Large stores: t plates 1xx/yy/5xx with three new numbers each, then p
\* plates 4xx/zz/4xx with two new numbers each
MinTriples == 90

MaxTriples == 96

MaxPairs == 2

GenFile(t, p) ==
    [i \in 1..t |-> Rec(Pad3(100 + i - 1) \o Pad2(i - 1) \o Pad3(500 + i - 1),
                        <<"2", "0">> \o Pad2(i % 20))]
    \o [j \in 1..p |-> Rec(Pad3(400 + j - 1) \o Pad2(99 - (j - 1)) \o Pad3(400 + j - 1),
                           <<"2", "0", "2", "1">>)]

\* The three plates 12-345-67 (2015), 012-345-67 (2018), 123-45-678 (2010)
EndToEndFile ==
    <<Rec(<<"1", "2", "3", "4", "5", "6", "7">>, <<"2", "0", "1", "5">>),
      Rec(<<"0", "1", "2", "3", "4", "5", "6", "7">>, <<"2", "0", "1", "8">>),
      Rec(<<"1", "2", "3", "4", "5", "6", "7", "8">>, <<"2", "0", "1", "0">>)>>

StoreFiles ==
    Files(StoreCandidates, MaxStoreLines) \cup {ExampleFile, EndToEndFile}
        \cup {GenFile(t, p) : t \in MinTriples..MaxTriples, p \in 0..MaxPairs}

InitQuery == \E f \in StoreFiles : StartOn(f)

\* A conversion run, then the rarity_checker calls on the file it wrote
Next == NextIngest \/ NextQuery

SpecQuery == InitQuery /\ [][Next]_vars

---------------------------------------------------------------------------
(* What the properties are stated with                                     *)

\* s without its leading "0" characters
StrippedForm(s) ==
    LET nz == {i \in 1..Len(s) : s[i] # "0"}
    IN  IF nz = {} THEN <<>>
        ELSE SubSeq(s, CHOOSE i \in nz : \A j \in nz : i <= j, Len(s))

IsDigitString(s) == \A i \in 1..Len(s) : s[i] \in DigitChars

RECURSIVE DecimalValue(_)
\* The number a digit string denotes
DecimalValue(s) ==
    IF s = <<>> THEN 0
    ELSE 10 * DecimalValue(SubSeq(s, 1, Len(s) - 1)) + DigitVal(s[Len(s)])

\* A production-year field that is a number: one or more digits
IsNumeric(y) == y # <<>> /\ IsDigitString(y)

\* The records section 7 of the specification calls invalid
InvalidRecord(r) ==
    \/ Len(StrippedForm(r.mispar_rechev)) \notin {7, 8}
    \/ ~IsNumeric(r.shnat_yitzur)

\* The exceptions the conversion raises for an invalid record
InvalidRecordError == {"TypeError", "ValueError"}

\* The rows of the table d with v in at least one part
Matching(d, v) ==
    {k \in 1..Len(d) : d[k].first = v \/ d[k].second = v \/ d[k].third = v}

AppearanceCount(d, v) == Cardinality(Matching(d, v))

\* The number of values in 0..999 that appear on more plates than v
RankPosition(d, v) ==
    Cardinality({n \in 0..(NumberRange - 1) :
                    AppearanceCount(d, n) > AppearanceCount(d, v)})

---------------------------------------------------------------------------
(* C1: a plate digit string whose stripped form d has 7 digits is stored    *)
(* as d[0:2], d[2:5], d[5:7], with first*100000 + second*100 + third equal  *)
(* to the number the string denotes and first in 10..99, second in 0..999,  *)
(* third in 0..99; one of 8 digits as d[0:3], d[3:5], d[5:8], with          *)
(* first*100000 + second*1000 + third equal to that number and first in     *)
(* 100..999, second in 0..99, third in 0..999; the string with one more     *)
(* leading zero is stored as the same row.  The string is the second line   *)
(* of the file.                                                            *)
C1_Decomposition ==
    LET s == file[2].mispar_rechev
        d == StrippedForm(s)
    IN  /\ (line_num = 3 /\ Len(d) \in {7, 8} /\ IsNumeric(file[2].shnat_yitzur))
              => (pc \in {"loop", "done"} /\ Len(db) = 2)
        /\ Len(db) = 2 =>
              LET r == db[2] IN
              /\ Len(d) \in {7, 8}
              /\ r.plate_number = d
              /\ Len(d) = 7 =>
                    /\ r.first = DecimalValue(SubSeq(d, 1, 2))
                    /\ r.second = DecimalValue(SubSeq(d, 3, 5))
                    /\ r.third = DecimalValue(SubSeq(d, 6, 7))
                    /\ r.first * 100000 + r.second * 100 + r.third = DecimalValue(s)
                    /\ r.first \in 10..99 /\ r.second \in 0..999 /\ r.third \in 0..99
              /\ Len(d) = 8 =>
                    /\ r.first = DecimalValue(SubSeq(d, 1, 3))
                    /\ r.second = DecimalValue(SubSeq(d, 4, 5))
                    /\ r.third = DecimalValue(SubSeq(d, 6, 8))
                    /\ r.first * 100000 + r.second * 1000 + r.third = DecimalValue(s)
                    /\ r.first \in 100..999 /\ r.second \in 0..99 /\ r.third \in 0..999
              /\ insert_csv_line_into_db(
                     Rec(<<"0">> \o s, file[2].shnat_yitzur), <<db[1]>>).db = db

\* A zero-padded 8-digit plate has been stored
C1_Witness ==
    /\ Len(db) = 2
    /\ file[2].mispar_rechev = <<"0", "1", "9", "1", "0", "9", "0", "1", "9">>
    /\ db[2].first = 191 /\ db[2].second = 9 /\ db[2].third = 19

(* C5: a record whose plate, stripped of leading zeros, is not 7 or 8       *)
(* characters long (the all-zero plate strips to nothing), or whose         *)
(* production year is no number, makes the insert raise (TypeError for the  *)
(* length, ValueError for the year) and leaves the table as it was.         *)
C5_InvalidRecordRejected ==
    [][(pc = "loop" /\ Yielded < Len(file) /\ InvalidRecord(file[Yielded + 1]))
          => /\ pc' = "raised"
             /\ err' \in InvalidRecordError
             /\ err' = (IF Len(StrippedForm(file[Yielded + 1].mispar_rechev)) \in {7, 8}
                        THEN "ValueError" ELSE "TypeError")
             /\ db' = db
             /\ output_db' = output_db]_vars

\* The all-zero plate has been refused with one row in the table
C5_Witness ==
    /\ pc = "raised"
    /\ err = "TypeError"
    /\ file[2].mispar_rechev = <<"0", "0", "0", "0", "0", "0", "0">>
    /\ Len(db) = 1

(* C7: the value convert_csv_file_to_db returns for a header line and N     *)
(* valid records is N, the number of rows written to the store.             *)
C7_ReturnsRecordCount ==
    pc = "done" =>
        /\ Len(output_db) = Len(file)
        /\ record_count = <<Len(file)>>

(* C8: every stored row has a plate_number of 7 or 8 digits with no leading *)
(* zero, and first, second, third are its decomposition, all in 0..999      *)
(* with first at least 10.                                                  *)
C8_StoreInvariant ==
    \A d \in {db, output_db} : \A k \in 1..Len(d) :
        LET r == d[k]
            n == Len(r.plate_number)
            w == IF n = 7 THEN 2 ELSE 3
        IN  /\ n \in {7, 8}
            /\ IsDigitString(r.plate_number)
            /\ r.plate_number[1] # "0"
            /\ r.first = DecimalValue(SubSeq(r.plate_number, 1, w))
            /\ r.second = DecimalValue(SubSeq(r.plate_number, w + 1, n - w))
            /\ r.third = DecimalValue(SubSeq(r.plate_number, n - w + 1, n))
            /\ r.first \in 10..999 /\ r.second \in 0..999 /\ r.third \in 0..999

(* C9: rows are inserted in input order; the store is written at most once, *)
(* and only by a run that inserted every record; when a record of the       *)
(* input is invalid the run never completes, neither that record nor a      *)
(* later one is inserted, and no store is written.                          *)
C9_AllOrNothing ==
    /\ persist_count <= 1
    /\ persist_count = 1 <=> pc = "done"
    /\ pc = "done" => (output_db = db /\ Len(db) = Len(file))
    /\ pc = "loop" => Len(db) = Yielded
    /\ pc = "raised" => (Len(db) = Yielded - 1 /\ err # "none")
    /\ \A k \in 1..Len(db) :
          /\ db[k].plate_number = StrippedForm(file[k].mispar_rechev)
          /\ db[k].production_year = DecimalValue(file[k].shnat_yitzur)
    /\ \A i \in 1..Len(file) :
          InvalidRecord(file[i]) =>
              /\ pc # "done"
              /\ persist_count = 0
              /\ output_db = <<>>
              /\ Len(db) < i
              /\ Yielded <= i
              /\ Yielded = i => pc \in {"raised", "failed"}

\* A run of three lines has failed at its invalid second line
C9_Witness ==
    /\ pc = "failed"
    /\ Len(file) = 3
    /\ ~InvalidRecord(file[1])
    /\ InvalidRecord(file[2])
    /\ line_num = 3
    /\ persist_count = 0

(* C2: check_number_rarity returns the number of rows with the value in     *)
(* at least one part, each row once, and the largest production year of     *)
(* those rows, or None when there is none; on the plates 12-345-67 (2015),  *)
(* 012-345-67 (2018) and 123-45-678 (2010) it returns (2, 2018) for 345,    *)
(* (1, 2010) for 678 and (0, None) for 1.                                   *)
C2_SegmentStats ==
    (result.op = "check_number_rarity" /\ result.number \in 0..999) =>
        LET m == Matching(output_db, result.number) IN
        /\ result.exc = "none"
        /\ result.appearance_count = <<Cardinality(m)>>
        /\ m = {} => result.latest_production_year = <<>>
        /\ m # {} =>
              /\ Len(result.latest_production_year) = 1
              /\ \E k \in m :
                    output_db[k].production_year = result.latest_production_year[1]
              /\ \A k \in m :
                    output_db[k].production_year <= result.latest_production_year[1]
        /\ file = EndToEndFile =>
              /\ Len(output_db) = 3
              /\ result.number = 345 =>
                    (result.appearance_count = <<2>>
                        /\ result.latest_production_year = <<2018>>)
              /\ result.number = 678 =>
                    (result.appearance_count = <<1>>
                        /\ result.latest_production_year = <<2010>>)
              /\ result.number = 1 =>
                    (result.appearance_count = <<0>>
                        /\ result.latest_production_year = <<>>)

\* 77 is both the first and the third part of a stored plate, counted once
C2_Witness ==
    /\ result.op = "check_number_rarity"
    /\ result.number = 77
    /\ Len(output_db) = 2
    /\ \A k \in 1..2 : output_db[k].first = 77 /\ output_db[k].third = 77
    /\ result.appearance_count = <<2>>

(* C3: estimate_difficulty_level returns floor(r * 100 / 1000) + 1 in exact *)
(* arithmetic, r being the number of values in 0..999 that appear on more   *)
(* plates than the value asked for.                                         *)
C3_ExactPercentile ==
    (result.op = "estimate_difficulty_level" /\ result.number \in 0..999) =>
        /\ result.exc = "none"
        /\ result.level =
              <<(RankPosition(output_db, result.number) * 100) \div NumberRange + 1>>

C6_EveryQueryChecksRange ==
    result.op \in {"check_number_rarity", "estimate_difficulty_level",
                   "get_latest_production_year_and_appearance_count"} =>
        /\ result.number \notin 0..999 =>
              /\ result.exc = "ValueError"
              /\ ~result.opened
              /\ result.appearance_count = <<>>
              /\ result.latest_production_year = <<>>
              /\ result.level = <<>>
        /\ result.number \in 0..999 => result.exc = "none"

(* C6 as amended: check_number_rarity and estimate_difficulty_level raise   *)
(* for a number below 0 or above 999, before the store is opened,           *)
(* returning no count, year or level, and do not raise for a number in      *)
(* 0..999; get_latest_production_year_and_appearance_count checks nothing   *)
(* and returns the row of its query for every number.                       *)
C6_PublicQueriesCheckRange ==
    /\ result.op \in {"check_number_rarity", "estimate_difficulty_level"} =>
          /\ result.number \notin 0..999 =>
                /\ result.exc = "ValueError"
                /\ ~result.opened
                /\ result.appearance_count = <<>>
                /\ result.latest_production_year = <<>>
                /\ result.level = <<>>
          /\ result.number \in 0..999 => (result.exc = "none" /\ result.opened)
    /\ result.op = "get_latest_production_year_and_appearance_count" =>
          /\ result.exc = "none"
          /\ result.appearance_count = <<AppearanceCount(output_db, result.number)>>

\* 1000 has been refused by estimate_difficulty_level on a store with rows
C6_Witness ==
    /\ result.op = "estimate_difficulty_level"
    /\ result.number = 1000
    /\ result.exc = "ValueError"
    /\ ~result.opened
    /\ output_db # <<>>

(* C10: main divides the total by the appearance count only when the        *)
(* appearance count is above 0.                                             *)
C10_OddsGuarded ==
    (result.op = "main" /\ result.divisor # <<>>) => result.divisor[1] > 0


====
